---- MODULE Spec2Model ----
(***************************************************************************)
(* releaser-pleaser: the `run` command (cmd/run.go) and the GitHub forge   *)
(* adapter (forge.go).  One run gathers the forge state, computes the next *)
(* version, prepares the releaser-pleaser branch in a fresh clone, commits *)
(* the release changes and force-pushes the branch.                        *)
(*                                                                         *)
(* Strings built with fmt.Sprintf are modelled as tuples of their parts,   *)
(* a Go nil as None, a Go (value, error) pair as a record [err, ...] with  *)
(* err = Nil for success.                                                  *)
(***************************************************************************)
EXTENDS Integers, Sequences, FiniteSets, TLC

None == <<>>              \* a nil pointer, an absent value
Some(v) == <<v>>
Nil == "nil"

\* Bounds of the model.
MaxCommits == 2
MaxRuns == 2

-----------------------------------------------------------------------------
(* Values the environment draws from                                       *)

BaseBranches == {<<"main">>, <<"next">>}
Forges == {"github", "gitlab", ""}

\* Hashes of the commits on the base branch, oldest first; RootHash is the
\* commit the repository starts with (and the one a tag points to).
RootHash == "c0"
HashNames == <<"c1", "c2", "c3", "c4", "c5">>
OtherHash == "ff"

\* Commit messages: conventional headers of type feat, fix, breaking feat and
\* chore, a message that is no conventional commit, and one the analyzer
\* rejects with an error.
Messages == {"feat", "fix", "feat!", "chore", "plain", "malformed"}

\* How the pull requests associated with a commit are laid out on the forge.
Layouts == {"none", "squash", "other", "paged"}

\* Tag names and the semantic version each parses to; "nightly" parses to none.
TagVersions == [n \in {"v1.2.0"} |-> <<1, 2, 0>>]
TagNames == {"v1.2.0", "nightly"}

\* Descriptions of the release pull request: no override section, a
\* next-version-type section holding patch, one holding unknown content, and a
\* description the markdown parser fails on.
Descriptions == {"", "patch", "bogus", "unreadable"}

-----------------------------------------------------------------------------
(* State                                                                   *)

VARIABLES
    \* the forge and the remote repository
    flagBranch,          \* --branch, the base branch (ForgeOptions.BaseBranch)
    forgeTags,           \* the tags as Repositories.ListTags lists them
    pullRequests,        \* the pull requests of the forge
    remoteRefs,          \* the remote's references: name -> [base, added]
    \* one run of the command
    pc,                  \* the step the run is at
    flagForge,           \* --forge
    runErr,              \* the error run returns
    tag, releasableCommits, changesets, pr, releaseOverrides, nextVersion,
    repo,                \* the local clone: [branches, head] or None
    worktree,            \* the files of the working tree, or None
    changelogEntry, releaseCommitMessage, pushRefSpec,
    \* bookkeeping of the model
    runs,                \* runs started so far
    trace,               \* the steps this run has executed, in order
    prev,                \* what the last successful run produced, while the forge state is unchanged
    lastFailure,         \* how the previous run ended: "none", "failed", "pushed"
    \* one call of the forge adapter, request by request
    op,                  \* the adapter function that was called, "" when none was
    listing,             \* the pages the platform holds of the list the call reads
    ctx,                 \* the caller's context: None, or Some(n) once cancelled, n requests sent
    atPage,              \* the page the loop is at
    commitIndex,         \* Changesets: the commit the outer loop is at
    fetched,             \* the items appended so far (repositoryCommits, associatedPRs)
    made,                \* Changesets: the changesets appended so far
    requests,            \* the requests the platform has received, in order
    ret,                 \* what the call returned, None while it runs
    \* the section block parser on one document
    lines,               \* the lines of the document
    lineNo,              \* the line the reader is at
    openSections,        \* the sections that are open, outermost first
    sections             \* the sections opened so far: name, lines, closed

forgeVars == <<flagBranch, forgeTags, pullRequests, remoteRefs>>
runVars == <<pc, flagForge, runErr, tag, releasableCommits, changesets, pr,
             releaseOverrides, nextVersion, repo, worktree, changelogEntry,
             releaseCommitMessage, pushRefSpec>>
ghostVars == <<runs, trace, prev, lastFailure>>
callVars == <<op, listing, ctx, atPage, commitIndex, fetched, made, requests, ret>>
parserVars == <<lines, lineNo, openSections, sections>>
unitVars == <<callVars, parserVars>>
vars == <<forgeVars, runVars, ghostVars, unitVars>>

-----------------------------------------------------------------------------
(* Names                                                                   *)

\* A Go string that the program builds from parts is the sequence of its
\* parts, and fmt.Sprintf the concatenation.

\* A branch name that also carries the version of the run.
RELEASER_PLEASER_BRANCH_PerVersion(branch) ==
    <<"releaser-pleaser--branches--">> \o branch \o nextVersion

\* fmt.Sprintf(RELEASER_PLEASER_BRANCH, branch)
RELEASER_PLEASER_BRANCH(branch) == <<"releaser-pleaser--branches--">> \o branch

\* plumbing.NewBranchReferenceName(name)
NewBranchReferenceName(name) == <<"refs/heads/">> \o name

\* fmt.Sprintf("chore(%s): release %s", flagBranch, nextVersion)
ReleaseCommitMessage(branch, version) ==
    <<"chore(">> \o branch \o <<"): release ">> \o version

\* config.RefSpec(fmt.Sprintf("+%s:%s", src, dst))
RefSpec(src, dst) == <<"+">> \o src \o <<":">> \o dst

\* GitHub.ReleaseURL
ReleaseURL(version) == <<"https://github.com/owner/repo/releases/tag/">> \o version

rpBranch == RELEASER_PLEASER_BRANCH(flagBranch)
rpBranchRef == NewBranchReferenceName(rpBranch)
baseRef == NewBranchReferenceName(flagBranch)

\* The commits of the base branch on the remote, oldest first.
history == remoteRefs[baseRef].base

-----------------------------------------------------------------------------
(* The forge's API, as the adapter sees it                                 *)

\* One page of a list call: the items and the Response's NextPage and LastPage
\* (both 0 on the last page).
Response(pages, page) ==
    [items |-> pages[page],
     NextPage |-> IF page < Len(pages) THEN page + 1 ELSE 0,
     LastPage |-> IF page < Len(pages) THEN Len(pages) ELSE 0]

\* PullRequests.ListPullRequestsWithCommit for the i-th commit of the base
\* branch: the pages of pull requests the forge associates with it.
PullRequest(number, sha) ==
    [Number |-> number, MergeCommitSHA |-> sha, HTMLURL |-> <<"pull", number>>]

LayoutPages(layout, hash, i) ==
    CASE layout = "none"   -> << <<>> >>
      [] layout = "squash" -> << <<PullRequest(100 + i, hash)>> >>
      [] layout = "other"  -> << <<PullRequest(200 + i, OtherHash)>> >>
      [] layout = "paged"  -> << <<PullRequest(200 + i, OtherHash)>>,
                                 <<PullRequest(100 + i, hash), PullRequest(300 + i, hash)>> >>

AssociatedPages(hash) ==
    LET i == CHOOSE k \in 1..Len(history) : history[k].Hash = hash
    IN  LayoutPages(history[i].Layout, hash, i)

\* Repositories.CompareCommits(base, head): the commits of head after base.
CompareCommits(base) ==
    LET i == CHOOSE k \in 1..Len(history) : history[k].Hash = base
    IN  SubSeq(history, i + 1, Len(history))

\* The Tag the adapter builds from the first listed tag.
Tag(t) == [Hash |-> t.Hash, Name |-> t.Name]

\* The Commit the adapter builds from a RepositoryCommit.
Commit(c) == [Hash |-> c.Hash, Message |-> c.Message]

RECURSIVE Chunks(_, _)
Chunks(seq, n) ==
    IF Len(seq) <= n THEN <<seq>>
    ELSE <<SubSeq(seq, 1, n)>> \o Chunks(SubSeq(seq, n + 1, Len(seq)), n)

GitHubPerPageMax == 100

-----------------------------------------------------------------------------
(* The GitHub adapter.  A forge request fails when it is the failAt-th     *)
(* request of the call (failAt = 0: no request fails).                     *)

\* GitHub.LatestTag
LatestTag(failAt) ==
    IF failAt = 1 THEN [err |-> "forge: list tags", tag |-> None]
    ELSE IF Len(forgeTags) > 0
         THEN [err |-> Nil, tag |-> Some(Tag(forgeTags[1]))]
         ELSE [err |-> Nil, tag |-> None]

\* GitHub.commitsSinceTag: the pagination loop, at request number req + 1.
RECURSIVE commitsSinceTagLoop(_, _, _, _, _)
commitsSinceTagLoop(pages, page, repositoryCommits, req, failAt) ==
    IF req + 1 = failAt THEN [err |-> "forge: compare commits", commits |-> <<>>]
    ELSE LET resp == Response(pages, page)
             got == repositoryCommits \o resp.items
         IN  IF page = resp.LastPage \/ resp.LastPage = 0
             THEN [err |-> Nil, commits |-> got]
             ELSE commitsSinceTagLoop(pages, resp.NextPage, got, req + 1, failAt)

commitsSinceTag(t, failAt) ==
    commitsSinceTagLoop(Chunks(CompareCommits(t.Hash), GitHubPerPageMax), 1, <<>>, 0, failAt)

\* GitHub.CommitsSince
CommitsSince(t, failAt) ==
    IF t # None
    THEN LET r == commitsSinceTag(t[1], failAt)
         IN  IF r.err # Nil THEN [err |-> r.err, commits |-> <<>>]
             ELSE [err |-> Nil,
                   commits |-> [i \in 1..Len(r.commits) |-> Commit(r.commits[i])]]
    ELSE [err |-> "not implemented", commits |-> <<>>]

\* AnalyzeCommits: the conventional-commit analysis of a list of commits.
AnalyzedCommit(commit, type, breaking) ==
    [Type |-> type, Breaking |-> breaking, Hash |-> commit.Hash]

RECURSIVE AnalyzeCommits(_)
AnalyzeCommits(commits) ==
    IF commits = <<>> THEN [err |-> Nil, entries |-> <<>>]
    ELSE LET c == Head(commits)
             rest == AnalyzeCommits(Tail(commits))
             mine == CASE c.Message = "feat"  -> <<AnalyzedCommit(c, "feat", FALSE)>>
                       [] c.Message = "fix"   -> <<AnalyzedCommit(c, "fix", FALSE)>>
                       [] c.Message = "feat!" -> <<AnalyzedCommit(c, "feat", TRUE)>>
                       [] c.Message = "chore" -> <<AnalyzedCommit(c, "chore", FALSE)>>
                       [] OTHER               -> <<>>
         IN  IF c.Message = "malformed" \/ rest.err # Nil
             THEN [err |-> "analyze: parse", entries |-> <<>>]
             ELSE [err |-> Nil, entries |-> mine \o rest.entries]

\* GitHub.Changesets, inner loop: all pages of the pull requests associated
\* with one commit.  reqs counts the requests made so far in the call.
RECURSIVE associatedPRsLoop(_, _, _, _, _)
associatedPRsLoop(pages, page, associatedPRs, req, failAt) ==
    IF req + 1 = failAt THEN [err |-> "forge: list pull requests", prs |-> <<>>, req |-> req + 1]
    ELSE LET resp == Response(pages, page)
             got == associatedPRs \o resp.items
         IN  IF page = resp.LastPage \/ resp.LastPage = 0
             THEN [err |-> Nil, prs |-> got, req |-> req + 1]
             ELSE associatedPRsLoop(pages, resp.NextPage, got, req + 1, failAt)

\* The first associated pull request, whatever its merge commit.
MergePullRequest_Any(associatedPRs, hash) ==
    IF associatedPRs = <<>> THEN None ELSE Some(Head(associatedPRs))

\* The first associated pull request whose merge commit is the commit itself.
RECURSIVE MergePullRequest(_, _)
MergePullRequest(associatedPRs, hash) ==
    IF associatedPRs = <<>> THEN None
    ELSE IF Head(associatedPRs).MergeCommitSHA = hash
         THEN Some(Head(associatedPRs))
         ELSE MergePullRequest(Tail(associatedPRs), hash)

Changeset(pullrequest, changelogEntries) ==
    [URL |-> pullrequest.HTMLURL,
     Identifier |-> <<"#", pullrequest.Number>>,
     ChangelogEntries |-> changelogEntries]

\* GitHub.Changesets, outer loop over the commits from the i-th on.
RECURSIVE ChangesetsLoop(_, _, _, _, _)
ChangesetsLoop(commits, i, acc, req, failAt) ==
    IF i > Len(commits) THEN [err |-> Nil, changesets |-> acc]
    ELSE LET commit == commits[i]
             listed == associatedPRsLoop(AssociatedPages(commit.Hash), 1, <<>>, req, failAt)
             pullrequest == MergePullRequest(listed.prs, commit.Hash)
             analyzed == AnalyzeCommits(<<commit>>)
         IN  IF listed.err # Nil THEN [err |-> listed.err, changesets |-> <<>>]
             ELSE IF pullrequest = None
                  THEN ChangesetsLoop(commits, i + 1, acc, listed.req, failAt)
             ELSE IF analyzed.err # Nil
                  THEN ChangesetsLoop(commits, i + 1, acc, listed.req, failAt)
             ELSE IF Len(analyzed.entries) > 0
                  THEN ChangesetsLoop(commits, i + 1,
                                      Append(acc, Changeset(pullrequest[1], analyzed.entries)),
                                      listed.req, failAt)
             ELSE ChangesetsLoop(commits, i + 1, acc, listed.req, failAt)

Changesets(commits, failAt) == ChangesetsLoop(commits, 1, <<>>, 0, failAt)

\* The ReleasePullRequest the adapter builds from a forge pull request.
ReleasePullRequest(p) ==
    [ID |-> p.Number, Title |-> p.Title, Description |-> p.Body, Labels |-> p.Labels]

\* The first pull request of a page based on the base branch and headed by
\* branch, open or not.
RECURSIVE FirstReleasePR_AnyState(_, _)
FirstReleasePR_AnyState(prs, branch) ==
    IF prs = <<>> THEN None
    ELSE LET p == Head(prs)
         IN  IF p.BaseLabel = flagBranch /\ p.HeadLabel = branch
             THEN Some([ID |-> p.Number, Title |-> p.Title,
                        Description |-> p.Body, Labels |-> p.Labels])
             ELSE FirstReleasePR_AnyState(Tail(prs), branch)

\* The first pull request of a page that is open, based on the base branch
\* and headed by branch.
RECURSIVE FirstReleasePR(_, _)
FirstReleasePR(prs, branch) ==
    IF prs = <<>> THEN None
    ELSE LET p == Head(prs)
         IN  IF p.BaseLabel = flagBranch /\ p.HeadLabel = branch /\ p.State = "open"
             THEN Some(ReleasePullRequest(p))
             ELSE FirstReleasePR(Tail(prs), branch)

RECURSIVE PullRequestForBranchLoop(_, _, _, _, _)
PullRequestForBranchLoop(pages, page, branch, req, failAt) ==
    IF req + 1 = failAt THEN [err |-> "forge: list pull requests", pr |-> None]
    ELSE LET resp == Response(pages, page)
             found == FirstReleasePR(resp.items, branch)
         IN  IF found # None THEN [err |-> Nil, pr |-> found]
             ELSE IF page = resp.LastPage \/ resp.LastPage = 0
                  THEN [err |-> Nil, pr |-> None]
                  ELSE PullRequestForBranchLoop(pages, resp.NextPage, branch, req + 1, failAt)

\* GitHub.PullRequestForBranch.  The forge answers "No commit found for SHA"
\* when the remote has no such branch.
PullRequestForBranch(branch, failAt) ==
    IF failAt # 1 /\ NewBranchReferenceName(branch) \notin DOMAIN remoteRefs
    THEN [err |-> Nil, pr |-> None]
    ELSE PullRequestForBranchLoop(Chunks(pullRequests, GitHubPerPageMax), 1, branch, 0, failAt)

-----------------------------------------------------------------------------
(* Versions and overrides                                                  *)

\* A version string "v<major>.<minor>.<patch>", from its numbers.
VersionString(v) == <<"v", ToString(v[1]), ".", ToString(v[2]), ".", ToString(v[3])>>

InitialVersion == <<0, 1, 0>>

Bump(v, type) ==
    CASE type = "major" -> <<v[1] + 1, 0, 0>>
      [] type = "minor" -> <<v[1], v[2] + 1, 0>>
      [] type = "patch" -> <<v[1], v[2], v[3] + 1>>

\* All analyzed commits of a list of changesets, in order.
RECURSIVE ChangelogEntries(_)
ChangelogEntries(sets) ==
    IF sets = <<>> THEN <<>>
    ELSE Head(sets).ChangelogEntries \o ChangelogEntries(Tail(sets))

\* The bump the changesets imply: breaking > feat > fix, "" when none.
VersionBumpFromChangesets(sets) ==
    LET es == ChangelogEntries(sets)
        Has(P(_)) == \E i \in 1..Len(es) : P(es[i])
        IsBreaking(e) == e.Breaking
        IsFeat(e) == e.Type = "feat"
        IsFix(e) == e.Type = "fix"
    IN  IF Has(IsBreaking) THEN "major"
        ELSE IF Has(IsFeat) THEN "minor"
        ELSE IF Has(IsFix) THEN "patch"
        ELSE ""

\* NextVersion(tag, changesets, nextVersionType): the results it can return.
\* With no releasable change it has no version to propose: it returns an
\* error, or the current version unchanged.
NextVersion(t, sets, nextVersionType) ==
    LET bump == IF nextVersionType # "" THEN nextVersionType
                ELSE VersionBumpFromChangesets(sets)
    IN  IF t # None /\ t[1].Name \notin DOMAIN TagVersions
        THEN {[err |-> "version: invalid tag", version |-> <<>>]}
        ELSE IF bump = ""
        THEN {[err |-> "version: no releasable change", version |-> <<>>],
              [err |-> Nil,
               version |-> VersionString(IF t = None THEN InitialVersion
                                         ELSE TagVersions[t[1].Name])]}
        ELSE IF t = None
        THEN {[err |-> Nil, version |-> VersionString(InitialVersion)]}
        ELSE {[err |-> Nil, version |-> VersionString(Bump(TagVersions[t[1].Name], bump))]}

\* ReleasePullRequest.GetOverrides: the overrides in the description.
GetOverrides(description) ==
    CASE description = "unreadable" -> [err |-> "overrides: parse", NextVersionType |-> ""]
      [] description = "patch"      -> [err |-> Nil, NextVersionType |-> "patch"]
      [] OTHER                      -> [err |-> Nil, NextVersionType |-> ""]

-----------------------------------------------------------------------------
(* The changelog                                                           *)

\* The commits of a type, the newest first.
RECURSIVE OfType_Reversed(_, _)
OfType_Reversed(commits, type) ==
    IF commits = <<>> THEN <<>>
    ELSE IF Head(commits).Type = type
         THEN OfType_Reversed(Tail(commits), type) \o <<Head(commits)>>
         ELSE OfType_Reversed(Tail(commits), type)

\* NewChangelogEntry: the fields handed to the changelog template.
RECURSIVE OfType(_, _)
OfType(commits, type) ==
    IF commits = <<>> THEN <<>>
    ELSE IF Head(commits).Type = type
         THEN <<Head(commits)>> \o OfType(Tail(commits), type)
         ELSE OfType(Tail(commits), type)

NewChangelogEntry(commits, version, link) ==
    [Features |-> OfType(commits, "feat"),
     Fixes |-> OfType(commits, "fix"),
     Version |-> version,
     VersionLink |-> link]

\* RunUpdater: the version files of the working tree carry the version.
RunUpdater(version, files) == [files EXCEPT !.version = version]

\* UpdateChangelogFile: the entry goes directly below the heading.
UpdateChangelogFile(files, entry) == [files EXCEPT !.changelog = <<entry>> \o @]

-----------------------------------------------------------------------------
(* The version-control collaborator (go-git), by its contract              *)

\* A branch is the base-branch commits it holds and the commits added on top;
\* an added commit is its message and the files of its tree.
Branch(base, added) == [base |-> base, added |-> added]
GitCommit(message, files) == [Message |-> message, Files |-> files]

BaseFiles == [version |-> <<>>, changelog |-> <<>>]

\* The files of the commit a branch points to.
TipFiles(b) == IF b.added = <<>> THEN BaseFiles ELSE b.added[Len(b.added)].Files

IsBranchRef(ref) == Len(ref) > 1 /\ ref[1] = "refs/heads/"
BranchOfRef(ref) == Tail(ref)

\* CloneRepo(url, branch, auth): the clones it can produce.  The clone has the
\* branch checked out; it may also carry local branches for the remote's
\* other branches.
CloneRepo(branch) ==
    LET ref == NewBranchReferenceName(branch)
        others == {r \in DOMAIN remoteRefs : r # ref /\ IsBranchRef(r)}
        only == [n \in {branch} |-> remoteRefs[ref]]
        all == [n \in {branch} \cup {BranchOfRef(r) : r \in others} |->
                    remoteRefs[NewBranchReferenceName(n)]]
    IN  IF ref \notin DOMAIN remoteRefs THEN {}
        ELSE {[branches |-> only, head |-> branch], [branches |-> all, head |-> branch]}

\* The branch is left in place.
DeleteBranch_Keep(r, name) == r

\* repo.DeleteBranch(name)
DeleteBranch(r, name) ==
    [r EXCEPT !.branches = [n \in DOMAIN r.branches \ {name} |-> r.branches[n]]]

\* worktree.Checkout with Create: the new branch starts at HEAD and becomes HEAD.
CheckoutCreate(r, ref) ==
    LET name == BranchOfRef(ref)
    IN  [branches |-> [n \in DOMAIN r.branches \cup {name} |->
                          IF n = name THEN r.branches[r.head] ELSE r.branches[n]],
         head |-> name]

\* worktree.Commit(message): one commit with the working tree on top of HEAD.
WorktreeCommit(r, files, message) ==
    [r EXCEPT !.branches[r.head].added = Append(@, GitCommit(message, files))]

\* The parts of a refspec "+src:dst".
RefSpecColon(rs) == CHOOSE i \in 1..Len(rs) : rs[i] = ":"
RefSpecForce(rs) == rs[1] = "+"
RefSpecSrc(rs) == SubSeq(rs, 2, RefSpecColon(rs) - 1)
RefSpecDst(rs) == SubSeq(rs, RefSpecColon(rs) + 1, Len(rs))

\* b is a the same as, or a continuation of, a.
IsPrefix(a, b) == Len(a) <= Len(b) /\ SubSeq(b, 1, Len(a)) = a
FastForward(old, new) ==
    IF old.added = <<>> THEN IsPrefix(old.base, new.base)
    ELSE old.base = new.base /\ IsPrefix(old.added, new.added)

\* repo.Push with one refspec: the remote's references afterwards, or an error.
Push(r, refs, rs, force) ==
    LET src == RefSpecSrc(rs)
        dst == RefSpecDst(rs)
        local == r.branches[BranchOfRef(src)]
    IN  IF ~IsBranchRef(src) \/ BranchOfRef(src) \notin DOMAIN r.branches
        THEN [err |-> "push: no such ref", refs |-> refs]
        ELSE IF dst \in DOMAIN refs /\ ~(force \/ RefSpecForce(rs))
                /\ ~FastForward(refs[dst], local)
        THEN [err |-> "push: non-fast-forward", refs |-> refs]
        ELSE [err |-> Nil,
              refs |-> [n \in DOMAIN refs \cup {dst} |-> IF n = dst THEN local ELSE refs[n]]]

-----------------------------------------------------------------------------
(* One run of the command: run, getChangesetsFromForge, reconcileReleasePR *)

NoError == <<>>
WrapChangesets == "failed to get changesets"
WrapReconcile == "failed to reconcile release pr"

\* A step ends: with an error the run returns it, wrapped; without, the run
\* goes on with the next step.
Finish(step, err, wrap, next) ==
    /\ pc' = IF err = Nil THEN next ELSE "Failed"
    /\ runErr' = IF err = Nil THEN runErr ELSE <<wrap, err>>
    /\ trace' = Append(trace, [step |-> step, ok |-> err = Nil])

\* The command starts: the flags are read and the forge is chosen.
StartRun ==
    /\ pc = "Idle"
    /\ runs < MaxRuns
    /\ runs' = runs + 1
    /\ \E f \in Forges : flagForge' = f
    /\ pc' = "LatestTag"
    /\ trace' = <<>>
    /\ runErr' = NoError
    /\ UNCHANGED <<tag, releasableCommits, changesets, pr, releaseOverrides,
                 nextVersion, repo, worktree, changelogEntry,
                 releaseCommitMessage, pushRefSpec, flagBranch, forgeTags,
                 pullRequests, remoteRefs, prev, lastFailure>>
    /\ UNCHANGED unitVars

\* getChangesetsFromForge: forge.LatestTag.  With no forge chosen the call is
\* on a nil interface and the process panics.
StepLatestTag ==
    /\ pc = "LatestTag"
    /\ IF flagForge # "github"
       THEN /\ pc' = "Panicked"
            /\ UNCHANGED <<runErr, trace, tag>>
       ELSE \E failAt \in 0..1 :
                LET r == LatestTag(failAt)
                IN  /\ Finish("LatestTag", r.err, WrapChangesets, "CommitsSince")
                    /\ tag' = IF r.err = Nil THEN r.tag ELSE tag
    /\ UNCHANGED <<releasableCommits, changesets, pr, releaseOverrides,
                 nextVersion, repo, worktree, changelogEntry,
                 releaseCommitMessage, pushRefSpec, flagBranch, forgeTags,
                 pullRequests, remoteRefs, flagForge, runs, prev,
                 lastFailure>>
    /\ UNCHANGED unitVars

\* getChangesetsFromForge: forge.CommitsSince(tag)
StepCommitsSince ==
    /\ pc = "CommitsSince"
    /\ \E failAt \in 0..1 :
           LET r == CommitsSince(tag, failAt)
           IN  /\ Finish("CommitsSince", r.err, WrapChangesets, "Changesets")
               /\ releasableCommits' = IF r.err = Nil THEN r.commits ELSE releasableCommits
    /\ UNCHANGED <<tag, changesets, pr, releaseOverrides, nextVersion, repo,
                 worktree, changelogEntry, releaseCommitMessage, pushRefSpec,
                 flagBranch, forgeTags, pullRequests, remoteRefs, flagForge,
                 runs, prev, lastFailure>>
    /\ UNCHANGED unitVars

\* The changesets are asked for all commits but the first.
StepChangesets_SkipFirst ==
    /\ pc = "Changesets"
    /\ \E failAt \in 0..1 :
           LET r == Changesets(IF releasableCommits = <<>> THEN <<>>
                               ELSE Tail(releasableCommits), failAt)
           IN  /\ Finish("Changesets", r.err, WrapChangesets, "PullRequestForBranch")
               /\ changesets' = IF r.err = Nil THEN r.changesets ELSE changesets
    /\ UNCHANGED <<tag, releasableCommits, pr, releaseOverrides, nextVersion,
                 repo, worktree, changelogEntry, releaseCommitMessage,
                 pushRefSpec, flagBranch, forgeTags, pullRequests,
                 remoteRefs, flagForge, runs, prev, lastFailure>>
    /\ UNCHANGED unitVars

\* getChangesetsFromForge: forge.Changesets(releasableCommits)
StepChangesets ==
    /\ pc = "Changesets"
    /\ \E failAt \in 0..1 :
           LET r == Changesets(releasableCommits, failAt)
           IN  /\ Finish("Changesets", r.err, WrapChangesets, "PullRequestForBranch")
               /\ changesets' = IF r.err = Nil THEN r.changesets ELSE changesets
    /\ UNCHANGED <<tag, releasableCommits, pr, releaseOverrides, nextVersion,
                 repo, worktree, changelogEntry, releaseCommitMessage,
                 pushRefSpec, flagBranch, forgeTags, pullRequests,
                 remoteRefs, flagForge, runs, prev, lastFailure>>
    /\ UNCHANGED unitVars

\* reconcileReleasePR: forge.PullRequestForBranch(rpBranch)
StepPullRequestForBranch ==
    /\ pc = "PullRequestForBranch"
    /\ \E failAt \in 0..1 :
           LET r == PullRequestForBranch(RELEASER_PLEASER_BRANCH(flagBranch), failAt)
           IN  /\ Finish("PullRequestForBranch", r.err, WrapReconcile, "GetOverrides")
               /\ pr' = IF r.err = Nil THEN r.pr ELSE pr
    /\ UNCHANGED <<tag, releasableCommits, changesets, releaseOverrides,
                 nextVersion, repo, worktree, changelogEntry,
                 releaseCommitMessage, pushRefSpec, flagBranch, forgeTags,
                 pullRequests, remoteRefs, flagForge, runs, prev,
                 lastFailure>>
    /\ UNCHANGED unitVars

\* reconcileReleasePR: pr.GetOverrides(), only when a pull request was found
StepGetOverrides ==
    /\ pc = "GetOverrides"
    /\ IF pr # None
       THEN LET r == GetOverrides(pr[1].Description)
            IN  /\ Finish("GetOverrides", r.err, WrapReconcile, "NextVersion")
                /\ releaseOverrides' = IF r.err = Nil
                                       THEN [NextVersionType |-> r.NextVersionType]
                                       ELSE releaseOverrides
       ELSE /\ pc' = "NextVersion"
            /\ UNCHANGED <<runErr, trace, releaseOverrides>>
    /\ UNCHANGED <<tag, releasableCommits, changesets, pr, nextVersion, repo,
                 worktree, changelogEntry, releaseCommitMessage, pushRefSpec,
                 flagBranch, forgeTags, pullRequests, remoteRefs, flagForge,
                 runs, prev, lastFailure>>
    /\ UNCHANGED unitVars

\* The version is computed without the overrides.
StepNextVersion_NoOverride ==
    /\ pc = "NextVersion"
    /\ \E r \in NextVersion(tag, changesets, "") :
           /\ Finish("NextVersion", r.err, WrapReconcile, "CloneRepo")
           /\ nextVersion' = IF r.err = Nil THEN r.version ELSE nextVersion
    /\ UNCHANGED <<tag, releasableCommits, changesets, pr, releaseOverrides,
                 repo, worktree, changelogEntry, releaseCommitMessage,
                 pushRefSpec, flagBranch, forgeTags, pullRequests,
                 remoteRefs, flagForge, runs, prev, lastFailure>>
    /\ UNCHANGED unitVars

\* reconcileReleasePR: rp.NextVersion(tag, changesets, releaseOverrides.NextVersionType)
StepNextVersion ==
    /\ pc = "NextVersion"
    /\ \E r \in NextVersion(tag, changesets, releaseOverrides.NextVersionType) :
           /\ Finish("NextVersion", r.err, WrapReconcile, "CloneRepo")
           /\ nextVersion' = IF r.err = Nil THEN r.version ELSE nextVersion
    /\ UNCHANGED <<tag, releasableCommits, changesets, pr, releaseOverrides,
                 repo, worktree, changelogEntry, releaseCommitMessage,
                 pushRefSpec, flagBranch, forgeTags, pullRequests,
                 remoteRefs, flagForge, runs, prev, lastFailure>>
    /\ UNCHANGED unitVars

\* reconcileReleasePR: rp.CloneRepo(ctx, forge.CloneURL(), flagBranch, forge.GitAuth())
StepCloneRepo ==
    /\ pc = "CloneRepo"
    /\ \/ \E r \in CloneRepo(flagBranch) :
              /\ Finish("CloneRepo", Nil, WrapReconcile, "Worktree")
              /\ repo' = Some(r)
       \/ /\ Finish("CloneRepo", "clone", WrapReconcile, "Worktree")
          /\ repo' = repo
    /\ UNCHANGED <<tag, releasableCommits, changesets, pr, releaseOverrides,
                 nextVersion, worktree, changelogEntry, releaseCommitMessage,
                 pushRefSpec, flagBranch, forgeTags, pullRequests,
                 remoteRefs, flagForge, runs, prev, lastFailure>>
    /\ UNCHANGED unitVars

\* reconcileReleasePR: repo.Worktree()
StepWorktree ==
    /\ pc = "Worktree"
    /\ \/ /\ Finish("Worktree", Nil, WrapReconcile, "DeleteBranch")
          /\ worktree' = Some(TipFiles(repo[1].branches[repo[1].head]))
       \/ /\ Finish("Worktree", "worktree", WrapReconcile, "DeleteBranch")
          /\ worktree' = worktree
    /\ UNCHANGED <<tag, releasableCommits, changesets, pr, releaseOverrides,
                 nextVersion, repo, changelogEntry, releaseCommitMessage,
                 pushRefSpec, flagBranch, forgeTags, pullRequests,
                 remoteRefs, flagForge, runs, prev, lastFailure>>
    /\ UNCHANGED unitVars

\* A local releaser-pleaser branch, if there is one, is checked out and kept.
StepDeleteBranch_Reuse ==
    /\ pc = "DeleteBranch"
    /\ IF RELEASER_PLEASER_BRANCH(flagBranch) \in DOMAIN repo[1].branches
       THEN /\ Finish("DeleteBranch", Nil, WrapReconcile, "RunUpdater")
            /\ repo' = Some([repo[1] EXCEPT !.head = RELEASER_PLEASER_BRANCH(flagBranch)])
            /\ worktree' = Some(TipFiles(repo[1].branches[RELEASER_PLEASER_BRANCH(flagBranch)]))
       ELSE /\ pc' = "Checkout"
            /\ UNCHANGED <<runErr, trace, repo, worktree>>
    /\ UNCHANGED <<tag, releasableCommits, changesets, pr, releaseOverrides,
                 nextVersion, changelogEntry, releaseCommitMessage,
                 pushRefSpec, flagBranch, forgeTags, pullRequests,
                 remoteRefs, flagForge, runs, prev, lastFailure>>
    /\ UNCHANGED unitVars

\* reconcileReleasePR: a local releaser-pleaser branch, if there is one, is deleted
StepDeleteBranch ==
    /\ pc = "DeleteBranch"
    /\ IF RELEASER_PLEASER_BRANCH(flagBranch) \in DOMAIN repo[1].branches
       THEN \/ /\ Finish("DeleteBranch", Nil, WrapReconcile, "Checkout")
               /\ repo' = Some(DeleteBranch(repo[1], RELEASER_PLEASER_BRANCH(flagBranch)))
            \/ /\ Finish("DeleteBranch", "delete branch", WrapReconcile, "Checkout")
               /\ repo' = repo
       ELSE /\ pc' = "Checkout"
            /\ UNCHANGED <<runErr, trace, repo>>
    /\ UNCHANGED <<tag, releasableCommits, changesets, pr, releaseOverrides,
                 nextVersion, worktree, changelogEntry, releaseCommitMessage,
                 pushRefSpec, flagBranch, forgeTags, pullRequests,
                 remoteRefs, flagForge, runs, prev, lastFailure>>
    /\ UNCHANGED unitVars

\* The new branch starts at the remote's releaser-pleaser branch when there is
\* one, instead of at HEAD.
StepCheckout_TrackRemote ==
    /\ pc = "Checkout"
    /\ \/ /\ BranchOfRef(rpBranchRef) \notin DOMAIN repo[1].branches
          /\ Finish("Checkout", Nil, WrapReconcile, "RunUpdater")
          /\ repo' = Some([branches |->
                              [n \in DOMAIN repo[1].branches \cup {rpBranch} |->
                                  IF n # rpBranch THEN repo[1].branches[n]
                                  ELSE IF rpBranchRef \in DOMAIN remoteRefs
                                       THEN remoteRefs[rpBranchRef]
                                       ELSE repo[1].branches[repo[1].head]],
                           head |-> rpBranch])
       \/ /\ Finish("Checkout", "checkout", WrapReconcile, "RunUpdater")
          /\ repo' = repo
    /\ UNCHANGED <<tag, releasableCommits, changesets, pr, releaseOverrides,
                 nextVersion, worktree, changelogEntry, releaseCommitMessage,
                 pushRefSpec, flagBranch, forgeTags, pullRequests,
                 remoteRefs, flagForge, runs, prev, lastFailure>>
    /\ UNCHANGED unitVars

\* reconcileReleasePR: worktree.Checkout(Branch: rpBranchRef, Create: true)
StepCheckout ==
    /\ pc = "Checkout"
    /\ \/ /\ BranchOfRef(rpBranchRef) \notin DOMAIN repo[1].branches
          /\ Finish("Checkout", Nil, WrapReconcile, "RunUpdater")
          /\ repo' = Some(CheckoutCreate(repo[1], rpBranchRef))
       \/ /\ Finish("Checkout", "checkout", WrapReconcile, "RunUpdater")
          /\ repo' = repo
    /\ UNCHANGED <<tag, releasableCommits, changesets, pr, releaseOverrides,
                 nextVersion, worktree, changelogEntry, releaseCommitMessage,
                 pushRefSpec, flagBranch, forgeTags, pullRequests,
                 remoteRefs, flagForge, runs, prev, lastFailure>>
    /\ UNCHANGED unitVars

\* reconcileReleasePR: rp.RunUpdater(ctx, nextVersion, worktree)
StepRunUpdater ==
    /\ pc = "RunUpdater"
    /\ \/ /\ Finish("RunUpdater", Nil, WrapReconcile, "NewChangelogEntry")
          /\ worktree' = Some(RunUpdater(nextVersion, worktree[1]))
       \/ /\ Finish("RunUpdater", "updater", WrapReconcile, "NewChangelogEntry")
          /\ worktree' = worktree
    /\ UNCHANGED <<tag, releasableCommits, changesets, pr, releaseOverrides,
                 nextVersion, repo, changelogEntry, releaseCommitMessage,
                 pushRefSpec, flagBranch, forgeTags, pullRequests,
                 remoteRefs, flagForge, runs, prev, lastFailure>>
    /\ UNCHANGED unitVars

\* reconcileReleasePR: rp.NewChangelogEntry(changesets, nextVersion, forge.ReleaseURL(nextVersion))
StepNewChangelogEntry ==
    /\ pc = "NewChangelogEntry"
    /\ \/ /\ Finish("NewChangelogEntry", Nil, WrapReconcile, "UpdateChangelogFile")
          /\ changelogEntry' = Some(NewChangelogEntry(ChangelogEntries(changesets),
                                                      nextVersion, ReleaseURL(nextVersion)))
       \/ /\ Finish("NewChangelogEntry", "template", WrapReconcile, "UpdateChangelogFile")
          /\ changelogEntry' = changelogEntry
    /\ UNCHANGED <<tag, releasableCommits, changesets, pr, releaseOverrides,
                 nextVersion, repo, worktree, releaseCommitMessage,
                 pushRefSpec, flagBranch, forgeTags, pullRequests,
                 remoteRefs, flagForge, runs, prev, lastFailure>>
    /\ UNCHANGED unitVars

\* reconcileReleasePR: rp.UpdateChangelogFile(worktree, changelogEntry)
StepUpdateChangelogFile ==
    /\ pc = "UpdateChangelogFile"
    /\ \/ /\ Finish("UpdateChangelogFile", Nil, WrapReconcile, "Commit")
          /\ worktree' = Some(UpdateChangelogFile(worktree[1], changelogEntry[1]))
       \/ /\ Finish("UpdateChangelogFile", "changelog file", WrapReconcile, "Commit")
          /\ worktree' = worktree
    /\ UNCHANGED <<tag, releasableCommits, changesets, pr, releaseOverrides,
                 nextVersion, repo, changelogEntry, releaseCommitMessage,
                 pushRefSpec, flagBranch, forgeTags, pullRequests,
                 remoteRefs, flagForge, runs, prev, lastFailure>>
    /\ UNCHANGED unitVars

\* The commit's error is dropped and the run goes on to push.
StepCommit_SwallowError ==
    /\ pc = "Commit"
    /\ releaseCommitMessage' = ReleaseCommitMessage(flagBranch, nextVersion)
    /\ \/ /\ Finish("Commit", Nil, WrapReconcile, "Push")
          /\ repo' = Some(WorktreeCommit(repo[1], worktree[1], releaseCommitMessage'))
       \/ /\ pc' = "Push"
          /\ trace' = Append(trace, [step |-> "Commit", ok |-> FALSE])
          /\ UNCHANGED <<runErr, repo>>
    /\ UNCHANGED <<tag, releasableCommits, changesets, pr, releaseOverrides,
                 nextVersion, worktree, changelogEntry, pushRefSpec,
                 flagBranch, forgeTags, pullRequests, remoteRefs, flagForge,
                 runs, prev, lastFailure>>
    /\ UNCHANGED unitVars

\* reconcileReleasePR: worktree.Commit(releaseCommitMessage)
StepCommit ==
    /\ pc = "Commit"
    /\ releaseCommitMessage' = ReleaseCommitMessage(flagBranch, nextVersion)
    /\ \/ /\ Finish("Commit", Nil, WrapReconcile, "Push")
          /\ repo' = Some(WorktreeCommit(repo[1], worktree[1], releaseCommitMessage'))
       \/ /\ Finish("Commit", "commit", WrapReconcile, "Push")
          /\ repo' = repo
    /\ UNCHANGED <<tag, releasableCommits, changesets, pr, releaseOverrides,
                 nextVersion, worktree, changelogEntry, pushRefSpec,
                 flagBranch, forgeTags, pullRequests, remoteRefs, flagForge,
                 runs, prev, lastFailure>>
    /\ UNCHANGED unitVars

\* The destination of the refspec is the remote-tracking ref.
StepPush_TrackingRef ==
    /\ pc = "Push"
    /\ pushRefSpec' = RefSpec(rpBranchRef, <<"refs/remotes/origin/">> \o rpBranch)
    /\ \/ LET r == Push(repo[1], remoteRefs, pushRefSpec', TRUE)
          IN  /\ Finish("Push", r.err, WrapReconcile, "Done")
              /\ remoteRefs' = r.refs
       \/ /\ Finish("Push", "push", WrapReconcile, "Done")
          /\ remoteRefs' = remoteRefs
    /\ UNCHANGED <<tag, releasableCommits, changesets, pr, releaseOverrides,
                 nextVersion, repo, worktree, changelogEntry,
                 releaseCommitMessage, flagBranch, forgeTags, pullRequests,
                 flagForge, runs, prev, lastFailure>>
    /\ UNCHANGED unitVars

\* A push that fails has updated the remote all the same.
StepPush_LandsOnFailure ==
    /\ pc = "Push"
    /\ pushRefSpec' = RefSpec(rpBranchRef, rpBranchRef)
    /\ \/ LET r == Push(repo[1], remoteRefs, pushRefSpec', TRUE)
          IN  /\ Finish("Push", r.err, WrapReconcile, "Done")
              /\ remoteRefs' = r.refs
       \/ /\ Finish("Push", "push", WrapReconcile, "Done")
          /\ remoteRefs' = Push(repo[1], remoteRefs, pushRefSpec', TRUE).refs
    /\ UNCHANGED <<tag, releasableCommits, changesets, pr, releaseOverrides,
                 nextVersion, repo, worktree, changelogEntry,
                 releaseCommitMessage, flagBranch, forgeTags, pullRequests,
                 flagForge, runs, prev, lastFailure>>
    /\ UNCHANGED unitVars

\* reconcileReleasePR: repo.PushContext with the refspec +rpBranchRef:rpBranchRef, forced
StepPush ==
    /\ pc = "Push"
    /\ pushRefSpec' = RefSpec(rpBranchRef, rpBranchRef)
    /\ \/ LET r == Push(repo[1], remoteRefs, pushRefSpec', TRUE)
          IN  /\ Finish("Push", r.err, WrapReconcile, "Done")
              /\ remoteRefs' = r.refs
       \/ /\ Finish("Push", "push", WrapReconcile, "Done")
          /\ remoteRefs' = remoteRefs
    /\ UNCHANGED <<tag, releasableCommits, changesets, pr, releaseOverrides,
                 nextVersion, repo, worktree, changelogEntry,
                 releaseCommitMessage, flagBranch, forgeTags, pullRequests,
                 flagForge, runs, prev, lastFailure>>
    /\ UNCHANGED unitVars

\* The process ends and the caller has the run's result.
Exit ==
    /\ pc \in {"Done", "Failed", "Panicked"}
    /\ pc' = "Idle"
    /\ prev' = IF pc = "Done"
               THEN Some([version |-> nextVersion, entry |-> changelogEntry[1],
                          message |-> releaseCommitMessage,
                          branch |-> remoteRefs[rpBranchRef]])
               ELSE prev
    /\ lastFailure' = IF pc = "Done" THEN "none" ELSE "failed"
    /\ runErr' = NoError
    /\ trace' = <<>>
    /\ tag' = None /\ releasableCommits' = <<>> /\ changesets' = <<>> /\ pr' = None
    /\ releaseOverrides' = [NextVersionType |-> ""]
    /\ nextVersion' = <<>> /\ repo' = None /\ worktree' = None
    /\ changelogEntry' = None /\ releaseCommitMessage' = <<>> /\ pushRefSpec' = <<>>
    /\ UNCHANGED <<flagBranch, forgeTags, pullRequests, remoteRefs, flagForge, runs>>
    /\ UNCHANGED unitVars

-----------------------------------------------------------------------------
(* The world around the runs: it changes only between runs (one writer).   *)

\* What a commit merged to the base branch looks like: its message and the
\* layout of its associated pull requests.
Merges == {<<"feat", "squash">>, <<"fix", "paged">>, <<"feat!", "squash">>,
           <<"chore", "squash">>, <<"feat", "other">>}

RootCommit == [Hash |-> RootHash, Message |-> "chore", Layout |-> "none"]

IsReleaserRef(ref) ==
    IsBranchRef(ref) /\ ref[2] = "releaser-pleaser--branches--"

OpenFor(head) ==
    {i \in 1..Len(pullRequests) :
        /\ pullRequests[i].State = "open"
        /\ pullRequests[i].HeadLabel = head
        /\ pullRequests[i].BaseLabel = flagBranch}

runLocals == <<pc, flagForge, runErr, tag, releasableCommits, changesets, pr,
               releaseOverrides, nextVersion, repo, worktree, changelogEntry,
               releaseCommitMessage, pushRefSpec, runs, trace, lastFailure>>

\* A pull request is merged into the base branch.
MergeCommit ==
    /\ pc = "Idle"
    /\ Len(history) <= MaxCommits
    /\ \E m \in Merges :
           remoteRefs' = [remoteRefs EXCEPT ![baseRef].base =
                             Append(@, [Hash |-> HashNames[Len(history)],
                                        Message |-> m[1], Layout |-> m[2]])]
    /\ prev' = None
    /\ UNCHANGED <<flagBranch, forgeTags, pullRequests, runLocals>>
    /\ UNCHANGED unitVars

\* Somebody opens the release pull request for a pushed releaser-pleaser
\* branch; the forge allows one open pull request per head and base.
OpenPullRequest ==
    /\ pc = "Idle"
    /\ \E ref \in DOMAIN remoteRefs, body \in Descriptions :
           /\ IsReleaserRef(ref)
           /\ OpenFor(BranchOfRef(ref)) = {}
           /\ pullRequests' = Append(pullRequests,
                  [Number |-> Len(pullRequests) + 1, Title |-> "release",
                   Body |-> body, BaseLabel |-> flagBranch,
                   HeadLabel |-> BranchOfRef(ref), State |-> "open", Labels |-> <<>>])
    /\ prev' = None
    /\ UNCHANGED <<flagBranch, forgeTags, remoteRefs, runLocals>>
    /\ UNCHANGED unitVars

\* Somebody edits the description of an open pull request.
EditPullRequest ==
    /\ pc = "Idle"
    /\ \E i \in 1..Len(pullRequests), body \in Descriptions :
           /\ pullRequests[i].State = "open"
           /\ pullRequests[i].Body # body
           /\ pullRequests' = [pullRequests EXCEPT ![i].Body = body]
    /\ prev' = None
    /\ UNCHANGED <<flagBranch, forgeTags, remoteRefs, runLocals>>
    /\ UNCHANGED unitVars

\* Somebody else pushes to the releaser-pleaser branch.
ForeignCommit == GitCommit(<<"wip">>, BaseFiles)
ForeignPush ==
    /\ pc = "Idle"
    /\ LET foreign == Branch(<<RootCommit>>, <<ForeignCommit>>)
       IN  /\ IF rpBranchRef \in DOMAIN remoteRefs
              THEN remoteRefs[rpBranchRef] # foreign ELSE TRUE
           /\ remoteRefs' = [n \in DOMAIN remoteRefs \cup {rpBranchRef} |->
                                IF n = rpBranchRef THEN foreign ELSE remoteRefs[n]]
    /\ UNCHANGED <<flagBranch, forgeTags, pullRequests, prev, runLocals>>
    /\ UNCHANGED unitVars

-----------------------------------------------------------------------------
(* The specification                                                       *)

ForgeTagLists ==
    {<<>>} \cup {<<[Hash |-> RootHash, Name |-> n]>> : n \in TagNames}

\* No adapter call is followed request by request, no document is parsed.
NoCall ==
    /\ op = "" /\ listing = <<>> /\ ctx = None /\ atPage = 0 /\ commitIndex = 0
    /\ fetched = <<>> /\ made = <<>> /\ requests = <<>> /\ ret = None
NoDocument ==
    /\ lines = <<>> /\ lineNo = 0 /\ openSections = <<>> /\ sections = <<>>

Init ==
    /\ flagBranch \in BaseBranches
    /\ forgeTags \in ForgeTagLists
    /\ pullRequests = <<>>
    /\ remoteRefs = [n \in {baseRef} |-> Branch(<<RootCommit>>, <<>>)]
    /\ pc = "Idle"
    /\ flagForge = ""
    /\ runErr = NoError
    /\ tag = None /\ releasableCommits = <<>> /\ changesets = <<>> /\ pr = None
    /\ releaseOverrides = [NextVersionType |-> ""]
    /\ nextVersion = <<>> /\ repo = None /\ worktree = None
    /\ changelogEntry = None /\ releaseCommitMessage = <<>> /\ pushRefSpec = <<>>
    /\ runs = 0 /\ trace = <<>> /\ prev = None /\ lastFailure = "none"
    /\ NoCall /\ NoDocument

Next ==
    \/ StartRun
    \/ StepLatestTag
    \/ StepCommitsSince
    \/ StepChangesets
    \/ StepPullRequestForBranch
    \/ StepGetOverrides
    \/ StepNextVersion
    \/ StepCloneRepo
    \/ StepWorktree
    \/ StepDeleteBranch
    \/ StepCheckout
    \/ StepRunUpdater
    \/ StepNewChangelogEntry
    \/ StepUpdateChangelogFile
    \/ StepCommit
    \/ StepPush
    \/ Exit
    \/ MergeCommit
    \/ OpenPullRequest
    \/ EditPullRequest
    \/ ForeignPush

Spec == Init /\ [][Next]_vars

-----------------------------------------------------------------------------
(* GitHub.Changesets on its own: any commits with any associated pull      *)
(* requests, and the call made once.                                       *)

MergeLists ==
    UNION {[1..n -> Messages \X Layouts] : n \in 0..MaxCommits}

InitChangesets ==
    /\ flagBranch = <<"main">>
    /\ forgeTags = <<[Hash |-> RootHash, Name |-> "v1.2.0"]>>
    /\ pullRequests = <<>>
    /\ \E ms \in MergeLists :
           remoteRefs = [n \in {baseRef} |->
               Branch(<<RootCommit>> \o
                      [i \in 1..Len(ms) |-> [Hash |-> HashNames[i], Message |-> ms[i][1],
                                             Layout |-> ms[i][2]]], <<>>)]
    /\ tag = Some(Tag(forgeTags[1]))
    /\ releasableCommits = CommitsSince(tag, 0).commits
    /\ pc = "Changesets"
    /\ flagForge = "github"
    /\ runErr = NoError
    /\ changesets = <<>> /\ pr = None
    /\ releaseOverrides = [NextVersionType |-> ""]
    /\ nextVersion = <<>> /\ repo = None /\ worktree = None
    /\ changelogEntry = None /\ releaseCommitMessage = <<>> /\ pushRefSpec = <<>>
    /\ runs = 1 /\ trace = <<>> /\ prev = None /\ lastFailure = "none"
    /\ NoCall /\ NoDocument

NextChangesets == StepChangesets

SpecChangesets == InitChangesets /\ [][NextChangesets]_vars

-----------------------------------------------------------------------------
(* One call of the adapter on its own, request by request: LatestTag,       *)
(* commitsSinceTag, Changesets or PullRequestForBranch.  Every request may  *)
(* fail, and the caller may cancel the context at any moment.               *)

MaxItems == 3       \* the items of a list the platform holds
MaxPerPage == 2     \* the items the platform puts on one page

ContextCanceled == "context canceled"

\* What can happen to a request the client makes with context c: with a
\* cancelled context it is not sent; otherwise the platform receives it and
\* answers it, or fails it, or the context is cancelled while it is in flight.
Outcomes(c) ==
    IF c # None THEN {"not sent"} ELSE {"answered", "failed", "cancelled in flight"}

\* The request log and the context after a request with outcome o.
Send(o, request) ==
    /\ requests' = IF o = "not sent" THEN requests ELSE Append(requests, request)
    /\ ctx' = IF o = "cancelled in flight" THEN Some(Len(requests')) ELSE ctx

\* The error the client returns for an outcome other than "answered".
ClientError(o, forgeError) == IF o = "failed" THEN forgeError ELSE ContextCanceled

\* The error response of the platform when it knows no commit for the branch.
NoCommitFound == "No commit found for SHA: <branch>"

\* An entry of the request log: the list and page asked for, and the error the
\* client returned.
Request(of, page, err) == [of |-> of, page |-> page, ok |-> err = Nil, err |-> err]

\* The loops' exit test: this was the last page, or the platform names none.
IsLastPage_OffByOne(p, resp) == p + 1 >= resp.LastPage
IsLastPage(p, resp) == p = resp.LastPage \/ resp.LastPage = 0

\* return nil, err: nothing of what was accumulated is returned.
Failed_KeepPartial(err, partial) == [err |-> err, value |-> partial]
Failed_CancelEndsList(err, partial) ==
    IF err = ContextCanceled THEN [err |-> Nil, value |-> partial]
    ELSE [err |-> err, value |-> <<>>]
Failed(err, partial) == [err |-> err, value |-> <<>>]

\* return value, nil
Returned(value) == [err |-> Nil, value |-> value]

\* The caller cancels the context while the call runs.
Cancel ==
    /\ op # "" /\ ret = None /\ ctx = None
    /\ ctx' = Some(Len(requests))
    /\ UNCHANGED <<op, listing, atPage, commitIndex, fetched, made, requests, ret,
                 forgeVars, runVars, ghostVars, parserVars>>

\* GitHub.LatestTag: the one request for the tags, and the return.
LatestTagRequest ==
    /\ op = "LatestTag" /\ ret = None
    /\ \E o \in Outcomes(ctx) :
           LET tags == Response(listing, 1).items
           IN  /\ Send(o, Request("tags", 1, IF o = "answered" THEN Nil
                                             ELSE ClientError(o, "forge: list tags")))
               /\ ret' = IF o # "answered"
                         THEN Some(Failed(ClientError(o, "forge: list tags"), <<>>))
                         ELSE IF Len(tags) > 0 THEN Some(Returned(Some(Tag(tags[1]))))
                         ELSE Some(Returned(None))
    /\ UNCHANGED <<op, listing, atPage, commitIndex, fetched, made,
                 forgeVars, runVars, ghostVars, parserVars>>

\* GitHub.commitsSinceTag: one pass of the loop, the request for page atPage.
commitsSinceTagPage ==
    /\ op = "commitsSinceTag" /\ ret = None
    /\ \E o \in Outcomes(ctx) :
           LET resp == Response(listing, atPage)
               repositoryCommits == fetched \o resp.items
           IN  /\ Send(o, Request("compare", atPage,
                                  IF o = "answered" THEN Nil
                                  ELSE ClientError(o, "forge: compare commits")))
               /\ IF o # "answered"
                  THEN /\ ret' = Some(Failed(ClientError(o, "forge: compare commits"), fetched))
                       /\ UNCHANGED <<fetched, atPage>>
                  ELSE /\ fetched' = repositoryCommits
                       /\ IF IsLastPage(atPage, resp)
                          THEN ret' = Some(Returned(repositoryCommits)) /\ atPage' = atPage
                          ELSE ret' = None /\ atPage' = resp.NextPage
    /\ UNCHANGED <<op, listing, commitIndex, made,
                 forgeVars, runVars, ghostVars, parserVars>>

\* GitHub.Changesets: one pass of the inner loop, the request for page atPage
\* of the pull requests of the commit at commitIndex; after its last page the
\* rest of the outer loop's pass, and after the last commit the return.
ChangesetsPage ==
    /\ op = "Changesets" /\ ret = None
    /\ IF commitIndex > Len(releasableCommits)
       THEN /\ ret' = Some(Returned(made))
            /\ UNCHANGED <<requests, ctx, atPage, commitIndex, fetched, made>>
       ELSE \E o \in Outcomes(ctx) :
                LET commit == releasableCommits[commitIndex]
                    resp == Response(AssociatedPages(commit.Hash), atPage)
                    associatedPRs == fetched \o resp.items
                    pullrequest == MergePullRequest(associatedPRs, commit.Hash)
                    analyzed == AnalyzeCommits(<<commit>>)
                    changesetsNow ==
                        IF pullrequest # None /\ analyzed.err = Nil /\ Len(analyzed.entries) > 0
                        THEN Append(made, Changeset(pullrequest[1], analyzed.entries))
                        ELSE made
                IN  /\ Send(o, Request(commit.Hash, atPage,
                                       IF o = "answered" THEN Nil
                                       ELSE ClientError(o, "forge: list pull requests")))
                    /\ IF o # "answered"
                       THEN /\ ret' = Some(Failed(ClientError(o, "forge: list pull requests"), made))
                            /\ UNCHANGED <<atPage, commitIndex, fetched, made>>
                       ELSE IF ~IsLastPage(atPage, resp)
                       THEN /\ atPage' = resp.NextPage
                            /\ fetched' = associatedPRs
                            /\ ret' = None
                            /\ UNCHANGED <<commitIndex, made>>
                       ELSE /\ made' = changesetsNow
                            /\ commitIndex' = commitIndex + 1
                            /\ atPage' = 1
                            /\ fetched' = <<>>
                            /\ ret' = IF commitIndex = Len(releasableCommits)
                                      THEN Some(Returned(changesetsNow)) ELSE None
    /\ UNCHANGED <<op, listing, forgeVars, runVars, ghostVars, parserVars>>

\* GitHub.PullRequestForBranch: one pass of the loop, the request for page
\* atPage.  The platform answers "No commit found for SHA" when the remote
\* has no such branch.
PullRequestForBranchPage ==
    /\ op = "PullRequestForBranch" /\ ret = None
    /\ \E o \in Outcomes(ctx) :
           LET branch == RELEASER_PLEASER_BRANCH(flagBranch)
               resp == Response(listing, atPage)
               found == FirstReleasePR(resp.items, branch)
               noCommit == NewBranchReferenceName(branch) \notin DOMAIN remoteRefs
               err == IF o # "answered" THEN ClientError(o, "forge: list pull requests")
                      ELSE IF noCommit THEN NoCommitFound
                      ELSE Nil
           IN  /\ Send(o, Request("pulls", atPage, err))
               /\ IF err # Nil
                  THEN /\ ret' = Some(IF err = NoCommitFound THEN Returned(None)
                                      ELSE Failed(err, <<>>))
                       /\ atPage' = atPage
                  ELSE IF found # None
                  THEN ret' = Some(Returned(found)) /\ atPage' = atPage
                  ELSE IF IsLastPage(atPage, resp)
                  THEN ret' = Some(Returned(None)) /\ atPage' = atPage
                  ELSE ret' = None /\ atPage' = resp.NextPage
    /\ UNCHANGED <<op, listing, commitIndex, fetched, made,
                 forgeVars, runVars, ghostVars, parserVars>>

\* The lists the platform can hold, and the pages it serves them in.
ListedTagNames == <<"v1.2.0", "v1.1.0", "v1.0.0", "v0.9.0", "v0.8.0">>
TagLists ==
    {[i \in 1..n |-> [Hash |-> RootHash, Name |-> ListedTagNames[i]]] : n \in 0..MaxItems}
Histories ==
    {<<RootCommit>> \o [i \in 1..n |-> [Hash |-> HashNames[i], Message |-> "fix", Layout |-> "none"]] :
        n \in 0..MaxItems}
PullRequestKinds == {"release", "closed", "other base", "other head"}
PullRequestOfKind(kind, number) ==
    [Number |-> number, Title |-> "release", Body |-> "patch",
     BaseLabel |-> IF kind = "other base" THEN <<"next">> ELSE <<"main">>,
     HeadLabel |-> IF kind = "other head" THEN <<"feature">>
                   ELSE RELEASER_PLEASER_BRANCH(<<"main">>),
     State |-> IF kind = "closed" THEN "closed" ELSE "open",
     Labels |-> <<>>]
PullRequestLists ==
    UNION {{[i \in 1..n |-> PullRequestOfKind(kinds[i], i)] : kinds \in [1..n -> PullRequestKinds]} :
           n \in 0..MaxItems}
PagesOf(list) == {Chunks(list, n) : n \in 1..MaxPerPage}

InitCalls ==
    /\ flagBranch = <<"main">>
    /\ \/ /\ op = "LatestTag"
          /\ forgeTags \in TagLists
          /\ remoteRefs = [n \in {baseRef} |-> Branch(<<RootCommit>>, <<>>)]
          /\ pullRequests = <<>>
          /\ listing \in PagesOf(forgeTags)
          /\ tag = None /\ releasableCommits = <<>>
       \/ /\ op = "commitsSinceTag"
          /\ forgeTags = <<[Hash |-> RootHash, Name |-> "v1.2.0"]>>
          /\ \E h \in Histories : remoteRefs = [n \in {baseRef} |-> Branch(h, <<>>)]
          /\ pullRequests = <<>>
          /\ listing \in PagesOf(CompareCommits(RootHash))
          /\ tag = Some(Tag(forgeTags[1])) /\ releasableCommits = <<>>
       \/ /\ op = "Changesets"
          /\ forgeTags = <<[Hash |-> RootHash, Name |-> "v1.2.0"]>>
          /\ \E ms \in MergeLists :
                 remoteRefs = [n \in {baseRef} |->
                     Branch(<<RootCommit>> \o
                            [i \in 1..Len(ms) |-> [Hash |-> HashNames[i], Message |-> ms[i][1],
                                                   Layout |-> ms[i][2]]], <<>>)]
          /\ pullRequests = <<>>
          /\ listing = <<>>
          /\ tag = Some(Tag(forgeTags[1]))
          /\ releasableCommits = CommitsSince(tag, 0).commits
       \/ /\ op = "PullRequestForBranch"
          /\ forgeTags = <<>>
          /\ pullRequests \in PullRequestLists
          /\ \/ remoteRefs = [n \in {baseRef} |-> Branch(<<RootCommit>>, <<>>)]
             \/ remoteRefs = [n \in {baseRef, rpBranchRef} |-> Branch(<<RootCommit>>, <<>>)]
          /\ listing \in PagesOf(pullRequests)
          /\ tag = None /\ releasableCommits = <<>>
    /\ ctx = None /\ atPage = 1 /\ commitIndex = 1
    /\ fetched = <<>> /\ made = <<>> /\ requests = <<>> /\ ret = None
    /\ pc = "Idle"
    /\ flagForge = "github"
    /\ runErr = NoError
    /\ changesets = <<>> /\ pr = None
    /\ releaseOverrides = [NextVersionType |-> ""]
    /\ nextVersion = <<>> /\ repo = None /\ worktree = None
    /\ changelogEntry = None /\ releaseCommitMessage = <<>> /\ pushRefSpec = <<>>
    /\ runs = 0 /\ trace = <<>> /\ prev = None /\ lastFailure = "none"
    /\ NoDocument

NextCalls ==
    \/ Cancel
    \/ LatestTagRequest
    \/ commitsSinceTagPage
    \/ ChangesetsPage
    \/ PullRequestForBranchPage

SpecCalls == InitCalls /\ [][NextCalls]_vars

-----------------------------------------------------------------------------
(* The section block parser on one document.  A line is the sequence of    *)
(* its parts; the block loop of the markdown parser calls Open on a line    *)
(* where no section is open and Continue on every line while one is.  A     *)
(* start marker inside an open section opens a child of it, which is        *)
(* content of that section: the model follows the outermost sections.       *)

MaxLines == 4       \* the lines of a document

SectionStartPrefix == "<!-- section-start "
SectionEndPrefix == "<!-- section-end "
SectionSuffix == " -->"

\* fmt.Sprintf(SectionStartFormat, name), fmt.Sprintf(SectionEndFormat, name)
SectionStartFormat(name) == <<SectionStartPrefix, name, SectionSuffix>>
SectionEndFormat(name) == <<SectionEndPrefix, name, SectionSuffix>>

\* regexp `^<prefix>(.+) -->` FindSubmatch: the line begins with the prefix
\* and (.+), greedy, runs to the last " -->" of the line; the submatch or None.
FindSubmatch(prefix, line) ==
    LET ends == {i \in 3..Len(line) : line[i] = SectionSuffix}
        last == CHOOSE i \in ends : \A j \in ends : j <= i
    IN  IF Len(line) >= 3 /\ line[1] = prefix /\ ends # {}
        THEN Some(SubSeq(line, 2, last - 1))
        ELSE None

\* ast.NewSection(name)
NewSection(name) == [Name |-> name]

\* sectionParser.Open: the node it opens, whether it advanced the reader, the state
Open(line) ==
    LET result == FindSubmatch(SectionStartPrefix, line)
    IN  IF result # None
        THEN [node |-> Some(NewSection(result[1])), advanced |-> TRUE, state |-> "HasChildren"]
        ELSE [node |-> None, advanced |-> FALSE, state |-> "NoChildren"]

\* Any end marker closes the section, whatever its name.
Continue_AnyEnd(node, line) ==
    IF FindSubmatch(SectionEndPrefix, line) # None
    THEN [advanced |-> TRUE, state |-> "Close"]
    ELSE [advanced |-> FALSE, state |-> "Continue|HasChildren"]

\* sectionParser.Continue
Continue(node, line) ==
    LET result == FindSubmatch(SectionEndPrefix, line)
    IN  IF result # None /\ result[1] = node.Name
        THEN [advanced |-> TRUE, state |-> "Close"]
        ELSE [advanced |-> FALSE, state |-> "Continue|HasChildren"]

\* The block loop handles the line the reader is at.
ParseLine ==
    /\ lineNo >= 1 /\ lineNo <= Len(lines)
    /\ LET line == lines[lineNo]
       IN  IF openSections = <<>>
           THEN LET opened == Open(line)
                IN  IF opened.node # None
                    THEN /\ sections' = Append(sections,
                                [node |-> opened.node[1], start |-> lineNo,
                                 body |-> <<>>, closedAt |-> 0])
                         /\ openSections' = <<Len(sections) + 1>>
                    ELSE UNCHANGED <<sections, openSections>>
           ELSE LET n == openSections[1]
                    continued == Continue(sections[n].node, line)
                IN  IF continued.state = "Close"
                    THEN /\ sections' = [sections EXCEPT ![n].closedAt = lineNo]
                         /\ openSections' = <<>>
                    ELSE /\ sections' = [sections EXCEPT ![n].body = Append(@, lineNo)]
                         /\ openSections' = openSections
    /\ lineNo' = lineNo + 1
    /\ UNCHANGED <<lines, forgeVars, runVars, ghostVars, callVars>>

SectionNames == {"a", "b"}
DocumentLines ==
    {SectionStartFormat(n) : n \in SectionNames}
    \cup {SectionEndFormat(n) : n \in SectionNames}
    \cup {<<"text">>,
          <<SectionEndPrefix, "a", SectionSuffix, "text">>,
          <<SectionEndPrefix, "a", SectionSuffix, "text", SectionSuffix>>}
Documents == UNION {[1..n -> DocumentLines] : n \in 0..MaxLines}

InitSection ==
    /\ lines \in Documents
    /\ lineNo = 1 /\ openSections = <<>> /\ sections = <<>>
    /\ flagBranch = <<"main">>
    /\ forgeTags = <<>>
    /\ pullRequests = <<>>
    /\ remoteRefs = [n \in {baseRef} |-> Branch(<<RootCommit>>, <<>>)]
    /\ pc = "Idle"
    /\ flagForge = ""
    /\ runErr = NoError
    /\ tag = None /\ releasableCommits = <<>> /\ changesets = <<>> /\ pr = None
    /\ releaseOverrides = [NextVersionType |-> ""]
    /\ nextVersion = <<>> /\ repo = None /\ worktree = None
    /\ changelogEntry = None /\ releaseCommitMessage = <<>> /\ pushRefSpec = <<>>
    /\ runs = 0 /\ trace = <<>> /\ prev = None /\ lastFailure = "none"
    /\ NoCall

NextSection == ParseLine

SpecSection == InitSection /\ [][NextSection]_vars

-----------------------------------------------------------------------------
(* NewChangelogEntry on its own: any entries, in one changeset or in one    *)
(* changeset each, and the call made once.                                  *)

MaxEntries == 4     \* the analyzed commits handed to NewChangelogEntry

EntryTypes == {"feat", "fix", "chore", "docs"}
EntryLists == UNION {[1..n -> EntryTypes] : n \in 0..MaxEntries}
EntryOf(types, i) == AnalyzedCommit([Hash |-> HashNames[i]], types[i], FALSE)

InitChangelog ==
    /\ \E types \in EntryLists :
           \/ changesets = [i \in 1..Len(types) |->
                  Changeset(PullRequest(100 + i, HashNames[i]), <<EntryOf(types, i)>>)]
           \/ /\ Len(types) > 1
              /\ changesets = <<Changeset(PullRequest(101, HashNames[1]),
                                          [i \in 1..Len(types) |-> EntryOf(types, i)])>>
    /\ pc = "NewChangelogEntry"
    /\ nextVersion = VersionString(<<1, 3, 0>>)
    /\ flagBranch = <<"main">>
    /\ forgeTags = <<[Hash |-> RootHash, Name |-> "v1.2.0"]>>
    /\ pullRequests = <<>>
    /\ remoteRefs = [n \in {baseRef} |-> Branch(<<RootCommit>>, <<>>)]
    /\ flagForge = "github"
    /\ runErr = NoError
    /\ tag = Some(Tag(forgeTags[1])) /\ releasableCommits = <<>> /\ pr = None
    /\ releaseOverrides = [NextVersionType |-> ""]
    /\ repo = None /\ worktree = None
    /\ changelogEntry = None /\ releaseCommitMessage = <<>> /\ pushRefSpec = <<>>
    /\ runs = 1 /\ trace = <<>> /\ prev = None /\ lastFailure = "none"
    /\ NoCall /\ NoDocument

NextChangelog == StepNewChangelogEntry

SpecChangelog == InitChangelog /\ [][NextChangelog]_vars

-----------------------------------------------------------------------------
(* Properties                                                              *)

Ran(step) == \E i \in 1..Len(trace) : trace[i].step = step /\ trace[i].ok
LastStep == trace[Len(trace)]

\* The name of the releaser-pleaser branch of the base branch, spelled out.
ReleaserBranchOf(base) == <<"releaser-pleaser--branches--">> \o base
ReleaserRefOf(base) == <<"refs/heads/", "releaser-pleaser--branches--">> \o base

\* C1: a step that fails is the last step the run executes: the run is then
\* Failed, with the step's error wrapped as the error run returns, and a run
\* is Failed or carries an error only in that way.
C1_FailureEndsRun ==
    /\ \A i \in 1..Len(trace) :
           ~trace[i].ok => i = Len(trace) /\ pc = "Failed" /\ runErr # NoError
    /\ pc = "Failed" => trace # <<>> /\ ~LastStep.ok /\ runErr # NoError
    /\ runErr # NoError => pc = "Failed"
    /\ pc = "Failed" /\ LastStep.step \in {"LatestTag", "CommitsSince", "Changesets"}
           => runErr[1] = WrapChangesets
    /\ pc = "Failed" /\ LastStep.step \notin {"LatestTag", "CommitsSince", "Changesets"}
           => runErr[1] = WrapReconcile

\* C1 happens: a run has failed at the commit, after every earlier step went well.
C1_Witness ==
    /\ pc = "Failed"
    /\ LastStep.step = "Commit"
    /\ runErr = <<WrapReconcile, "commit">>
    /\ Ran("UpdateChangelogFile")

\* C2: a successful run that follows a successful run, with the tag, the
\* commits and the pull requests unchanged in between, computes the same
\* version, changelog entry and commit message, and leaves the remote
\* releaser-pleaser branch with the same content: the base branch and one commit.
C2_SecondRunSame ==
    (pc = "Done" /\ prev # None) =>
        /\ nextVersion = prev[1].version
        /\ changelogEntry[1] = prev[1].entry
        /\ releaseCommitMessage = prev[1].message
        /\ ReleaserRefOf(flagBranch) \in DOMAIN remoteRefs
        /\ remoteRefs[ReleaserRefOf(flagBranch)] = prev[1].branch
        /\ remoteRefs[ReleaserRefOf(flagBranch)].base = history
        /\ Len(remoteRefs[ReleaserRefOf(flagBranch)].added) = 1

\* C2 happens: a second successful run on an unchanged forge, with commits to release.
C2_Witness ==
    /\ pc = "Done" /\ prev # None
    /\ Len(changesets) > 0

\* C3: every releaser-pleaser branch on the remote is the one named after the
\* base branch, every push names it on both sides, and at most one release
\* pull request is open for the base branch.
C3_OneReleasePullRequest ==
    /\ \A ref \in DOMAIN remoteRefs : IsReleaserRef(ref) => ref = ReleaserRefOf(flagBranch)
    /\ pushRefSpec # <<>> =>
           pushRefSpec = <<"+">> \o ReleaserRefOf(flagBranch) \o <<":">> \o ReleaserRefOf(flagBranch)
    /\ Cardinality({i \in 1..Len(pullRequests) :
                       /\ pullRequests[i].State = "open"
                       /\ pullRequests[i].BaseLabel = flagBranch
                       /\ pullRequests[i].HeadLabel[1] = "releaser-pleaser--branches--"}) <= 1

\* C3 happens: a second successful run has pushed, after the forge changed,
\* while the release pull request is open.
C3_Witness ==
    /\ pc = "Done" /\ runs = 2
    /\ OpenFor(ReleaserBranchOf(flagBranch)) # {}
    /\ prev = None /\ lastFailure = "none"

\* C4 (as claimed): a run that is Done leaves an open release pull request
\* for the releaser-pleaser branch.  Stated for the runs that had a change to
\* release, so that a violation does not rest on what a run without one does.
C4_DoneHasPullRequest ==
    (pc = "Done" /\ VersionBumpFromChangesets(changesets) # "") =>
        OpenFor(ReleaserBranchOf(flagBranch)) # {}

\* C5 (as claimed): with no tag on the forge, CommitsSince returns the whole
\* history of the base branch and the run does not fail for the missing tag.
C5_NoTagContinues ==
    (trace # <<>> /\ LastStep.step = "CommitsSince" /\ tag = None) =>
        \/ LastStep.ok /\ releasableCommits = [i \in 1..Len(history) |-> Commit(history[i])]
        \/ pc = "Failed" /\ runErr = <<WrapChangesets, "forge: compare commits">>

\* C6 (as claimed): a run whose changesets hold no releasable change, and
\* whose pull request holds no override, neither fails for it nor pushes a
\* release commit.
C6_NothingToReconcile ==
    (/\ pc \in {"Failed", "Done"}
     /\ Ran("PullRequestForBranch")
     /\ VersionBumpFromChangesets(changesets) = ""
     /\ releaseOverrides.NextVersionType = "") =>
        /\ pc # "Done"
        /\ runErr # <<WrapReconcile, "version: no releasable change">>

\* C7: when a run is Done, the remote releaser-pleaser branch is the local
\* one: the base branch as cloned plus exactly one commit, whose message is
\* chore(<base branch>): release <version> with the version of this run, and
\* it was pushed with the forcing refspec that names the branch on both sides.
C7_OneCommitForcePushed ==
    pc = "Done" =>
        /\ releaseCommitMessage = <<"chore(">> \o flagBranch \o <<"): release ">> \o nextVersion
        /\ pushRefSpec = <<"+">> \o ReleaserRefOf(flagBranch) \o <<":">> \o ReleaserRefOf(flagBranch)
        /\ ReleaserRefOf(flagBranch) \in DOMAIN remoteRefs
        /\ remoteRefs[ReleaserRefOf(flagBranch)] = repo[1].branches[ReleaserBranchOf(flagBranch)]
        /\ remoteRefs[ReleaserRefOf(flagBranch)].base = history
        /\ Len(remoteRefs[ReleaserRefOf(flagBranch)].added) = 1
        /\ remoteRefs[ReleaserRefOf(flagBranch)].added[1].Message = releaseCommitMessage

\* C7 happens: a run is Done whose clone carried the remote's earlier
\* releaser-pleaser branch, one that the push then overwrote.
C7_Witness ==
    /\ pc = "Done"
    /\ Ran("DeleteBranch")
    /\ nextVersion = VersionString(<<1, 3, 0>>)

\* C8: once the version is computed, the override handed to the calculator is
\* the one in the description of the open release pull request ("" without a
\* pull request or without an override), an override decides the version
\* whatever the commits imply, and that version is the one in the version
\* files, the changelog entry and the commit message.
DescribedOverride == IF pr # None /\ pr[1].Description = "patch" THEN "patch" ELSE ""
C8_OverrideDecidesVersion ==
    /\ Ran("NextVersion") =>
           /\ releaseOverrides.NextVersionType = DescribedOverride
           /\ DescribedOverride # "" =>
                  nextVersion = VersionString(Bump(TagVersions[tag[1].Name], DescribedOverride))
           /\ pr = None /\ VersionBumpFromChangesets(changesets) # "" =>
                  nextVersion = VersionString(Bump(TagVersions[tag[1].Name],
                                                   VersionBumpFromChangesets(changesets)))
    /\ Ran("RunUpdater") => worktree[1].version = nextVersion
    /\ Ran("NewChangelogEntry") => changelogEntry[1].Version = nextVersion
    /\ Ran("Commit") => releaseCommitMessage = ReleaseCommitMessage(flagBranch, nextVersion)

\* C8 happens: a run is Done with a patch override although its commits imply
\* a major bump.
C8_Witness ==
    /\ pc = "Done"
    /\ pr # None /\ releaseOverrides.NextVersionType = "patch"
    /\ VersionBumpFromChangesets(changesets) = "major"
    /\ nextVersion = VersionString(<<1, 2, 1>>)

\* C9: a run that is Done has left the remote releaser-pleaser branch, the
\* version and the pull requests as the forge state alone determines them,
\* whatever earlier runs failed and whatever the branch held before: the
\* branch is the base branch plus one release commit for a version the
\* calculator gives for the forge's tag, changesets and override.
ForgeChangesets == Changesets(CommitsSince(LatestTag(0).tag, 0).commits, 0).changesets
ForgeOverride ==
    LET found == PullRequestForBranch(ReleaserBranchOf(flagBranch), 0).pr
    IN  IF found = None THEN "" ELSE GetOverrides(found[1].Description).NextVersionType
ForgeVersions ==
    {r.version : r \in {x \in NextVersion(LatestTag(0).tag, ForgeChangesets, ForgeOverride) :
                            x.err = Nil}}
ReleaseBranchFor(version) ==
    Branch(history,
           <<GitCommit(ReleaseCommitMessage(flagBranch, version),
                       [version |-> version,
                        changelog |-> <<NewChangelogEntry(ChangelogEntries(ForgeChangesets),
                                                          version, ReleaseURL(version))>>])>>)
C9_FailedRunsLeaveNoTrace ==
    pc = "Done" =>
        /\ nextVersion \in ForgeVersions
        /\ ReleaserRefOf(flagBranch) \in DOMAIN remoteRefs
        /\ remoteRefs[ReleaserRefOf(flagBranch)] = ReleaseBranchFor(nextVersion)

\* C9 happens: a run is Done right after a run that failed, on a remote whose
\* releaser-pleaser branch held other commits.
C9_Witness ==
    /\ pc = "Done"
    /\ lastFailure = "failed"
    /\ Ran("DeleteBranch")

\* C17: the checkout-with-create finds no local releaser-pleaser branch, a
\* branch the clone carried having been deleted first; once it has run, the
\* local releaser-pleaser branch is HEAD and is the base branch as cloned, with
\* no commit on top until this run's own commit.
C17_PendingBranchFromBaseTip ==
    /\ pc = "Checkout" => rpBranch \notin DOMAIN repo[1].branches
    /\ Ran("Checkout") =>
           /\ repo[1].head = rpBranch
           /\ repo[1].branches[rpBranch].base = history
           /\ repo[1].branches[rpBranch].base = repo[1].branches[flagBranch].base
           /\ repo[1].branches[flagBranch].added = <<>>
           /\ repo[1].branches[rpBranch].added =
                  IF Ran("Commit") THEN <<GitCommit(releaseCommitMessage, worktree[1])>>
                  ELSE <<>>

\* C17 happens: the clone carried the releaser-pleaser branch of an earlier
\* push with its commit, the branch was deleted and created again, and it
\* holds no commit.
C17_Witness ==
    /\ pc = "RunUpdater"
    /\ Ran("DeleteBranch") /\ Ran("Checkout")
    /\ rpBranchRef \in DOMAIN remoteRefs
    /\ remoteRefs[rpBranchRef].added # <<>>
    /\ repo[1].head = rpBranch
    /\ repo[1].branches[rpBranch].added = <<>>

\* C18: the first four steps of a run are LatestTag, CommitsSince, Changesets
\* and PullRequestForBranch in this order, each once; the commits are those
\* since the tag LatestTag returned and the changesets those of the commits
\* CommitsSince returned; any later step, and a clone, come only after all four
\* have succeeded.
ForgeQueries == <<"LatestTag", "CommitsSince", "Changesets", "PullRequestForBranch">>
C18_ForgeQueriedInOrder ==
    /\ \A i \in 1..Len(trace) :
           IF i <= Len(ForgeQueries)
           THEN trace[i].step = ForgeQueries[i]
           ELSE /\ \A q \in 1..Len(ForgeQueries) : trace[i].step # ForgeQueries[q]
                /\ \A j \in 1..Len(ForgeQueries) : trace[j].ok
    /\ Ran("LatestTag") => tag = LatestTag(0).tag
    /\ Ran("CommitsSince") =>
           /\ CommitsSince(tag, 0).err = Nil
           /\ releasableCommits = CommitsSince(tag, 0).commits
    /\ Ran("Changesets") =>
           /\ Changesets(releasableCommits, 0).err = Nil
           /\ changesets = Changesets(releasableCommits, 0).changesets
    /\ Ran("PullRequestForBranch") => pr = PullRequestForBranch(rpBranch, 0).pr
    /\ (repo # None \/ worktree # None \/ pushRefSpec # <<>>
        \/ pc \in {"CloneRepo", "Worktree", "DeleteBranch", "Checkout", "RunUpdater",
                   "NewChangelogEntry", "UpdateChangelogFile", "Commit", "Push", "Done"}) =>
           \A q \in 1..Len(ForgeQueries) : Ran(ForgeQueries[q])

\* C18 happens: a run has pushed, on a forge with a tag, two commits to
\* release with a changeset each, and an open release pull request.
C18_Witness ==
    /\ pc = "Done"
    /\ tag # None
    /\ Len(releasableCommits) = 2
    /\ Len(changesets) = 2
    /\ pr # None

\* C20: of the steps of a run only the push that succeeds changes the remote,
\* and it changes the releaser-pleaser branch alone: every other step,
\* a failing push included, leaves every branch of the remote as it was, and no
\* step changes the base branch, the tags or the pull requests.
C20_OnlyPushChangesRemote ==
    [][(pc # "Idle" \/ pc' # "Idle") =>
           /\ forgeTags' = forgeTags
           /\ pullRequests' = pullRequests
           /\ remoteRefs'[baseRef] = remoteRefs[baseRef]
           /\ IF pc = "Push" /\ pc' = "Done"
              THEN /\ DOMAIN remoteRefs' = DOMAIN remoteRefs \cup {rpBranchRef}
                   /\ \A n \in DOMAIN remoteRefs \ {rpBranchRef} :
                          remoteRefs'[n] = remoteRefs[n]
              ELSE remoteRefs' = remoteRefs]_vars

\* C20 happens: a run has failed at the push, with its release commit made,
\* and the remote's releaser-pleaser branch is still the one of another push.
C20_Witness ==
    /\ pc = "Failed"
    /\ Len(trace) > 0
    /\ LastStep = [step |-> "Push", ok |-> FALSE]
    /\ Ran("Commit")
    /\ rpBranchRef \in DOMAIN remoteRefs
    /\ remoteRefs[rpBranchRef] # repo[1].branches[rpBranch]
    /\ Len(repo[1].branches[rpBranch].added) = 1

\* C10: Changesets returns one Changeset for each commit that has an
\* associated pull request merged as that commit and that analyzes to at
\* least one entry, in the order of the commits, built from the first such
\* pull request; every other commit is dropped, and the call fails only when
\* a request to the forge fails.
MergedAs(commit) ==
    LET pages == AssociatedPages(commit.Hash)
    IN  UNION {{<<p, j>> : j \in {k \in 1..Len(pages[p]) :
                                     pages[p][k].MergeCommitSHA = commit.Hash}} :
               p \in 1..Len(pages)}
FirstMergedAs(commit) ==
    LET at == CHOOSE x \in MergedAs(commit) :
                  \A y \in MergedAs(commit) : x[1] < y[1] \/ (x[1] = y[1] /\ x[2] <= y[2])
    IN  AssociatedPages(commit.Hash)[at[1]][at[2]]
Analyzes(commit) ==
    AnalyzeCommits(<<commit>>).err = Nil /\ AnalyzeCommits(<<commit>>).entries # <<>>
KeptCommits(commits) ==
    {i \in 1..Len(commits) : MergedAs(commits[i]) # {} /\ Analyzes(commits[i])}
NthKept(commits, n) ==
    CHOOSE i \in KeptCommits(commits) :
        Cardinality({j \in KeptCommits(commits) : j <= i}) = n
C10_ChangesetsPerMergedCommit ==
    /\ pc = "PullRequestForBranch" =>
           /\ Len(changesets) = Cardinality(KeptCommits(releasableCommits))
           /\ \A n \in 1..Len(changesets) :
                  LET commit == releasableCommits[NthKept(releasableCommits, n)]
                  IN  /\ changesets[n].Identifier = <<"#", FirstMergedAs(commit).Number>>
                      /\ changesets[n].URL = FirstMergedAs(commit).HTMLURL
                      /\ changesets[n].ChangelogEntries = AnalyzeCommits(<<commit>>).entries
    /\ pc = "Failed" /\ LastStep.step = "Changesets" =>
           runErr = <<WrapChangesets, "forge: list pull requests">>

\* C10 happens: of two commits the first is dropped (its pull request was not
\* merged as the commit) and the second is kept, with the first of the two pull
\* requests merged as it, found on the second page.
C10_Witness ==
    /\ pc = "PullRequestForBranch"
    /\ Len(releasableCommits) = 2
    /\ history[2].Layout = "other"
    /\ history[3].Layout = "paged"
    /\ Len(changesets) = 1
    /\ changesets[1].Identifier = <<"#", 103>>

\* C14 (as claimed): a run started with a forge other than github ends
\* Failed, with an error for the caller, and without having attempted a step.
C14_UnimplementedForgeFailsFast ==
    (flagForge # "github" /\ pc \notin {"Idle", "LatestTag"}) =>
        /\ pc = "Failed"
        /\ runErr # NoError
        /\ trace = <<>>

-----------------------------------------------------------------------------
(* Properties of one adapter call                                          *)

RECURSIVE Flatten(_)
Flatten(ps) == IF ps = <<>> THEN <<>> ELSE Head(ps) \o Flatten(Tail(ps))

\* Requests for the pages 1..n of one list, each answered.
PagesRequested(of, n) == [i \in 1..n |-> Request(of, i, Nil)]

\* Every page of the pull requests of every commit, commit after commit.
RECURSIVE AllAssociatedRequests(_)
AllAssociatedRequests(commits) ==
    IF commits = <<>> THEN <<>>
    ELSE PagesRequested(Head(commits).Hash, Len(AssociatedPages(Head(commits).Hash)))
         \o AllAssociatedRequests(Tail(commits))

IsRelease(x) ==
    /\ x.State = "open"
    /\ x.BaseLabel = flagBranch
    /\ x.HeadLabel = ReleaserBranchOf(flagBranch)
PagesWithRelease == {p \in 1..Len(listing) : \E j \in 1..Len(listing[p]) : IsRelease(listing[p][j])}
BranchHasCommit == ReleaserRefOf(flagBranch) \in DOMAIN remoteRefs

\* The page at which PullRequestForBranch stops: the first one that holds a
\* release pull request, the last one when none does, the first when the
\* platform knows no commit for the branch.
StopPage ==
    IF ~BranchHasCommit THEN 1
    ELSE IF PagesWithRelease = {} THEN Len(listing)
    ELSE CHOOSE p \in PagesWithRelease : \A q \in PagesWithRelease : p <= q

Succeeded == ret # None /\ ret[1].err = Nil

\* C11 (amended): a call that succeeds has requested page 1 and then each
\* page the platform named as next, each once and in order.  commitsSinceTag
\* and the lookup of a commit's pull requests in Changesets go on to the last
\* page and work on the concatenation of all pages; PullRequestForBranch stops
\* at the first page that holds a release pull request; LatestTag requests the
\* first page of the tags only.
C11_PaginatesToLastPage ==
    /\ Succeeded /\ op = "commitsSinceTag" =>
           /\ requests = PagesRequested("compare", Len(listing))
           /\ ret[1].value = Flatten(listing)
    /\ Succeeded /\ op = "Changesets" =>
           /\ requests = AllAssociatedRequests(releasableCommits)
           /\ ret[1].value = Changesets(releasableCommits, 0).changesets
    /\ Succeeded /\ op = "PullRequestForBranch" =>
           requests = IF BranchHasCommit THEN PagesRequested("pulls", StopPage)
                      ELSE <<Request("pulls", 1, NoCommitFound)>>
    /\ Succeeded /\ op = "LatestTag" =>
           requests = PagesRequested("tags", 1)
    /\ ret = None /\ op \in {"commitsSinceTag", "PullRequestForBranch"} =>
           requests = PagesRequested(IF op = "commitsSinceTag" THEN "compare" ELSE "pulls",
                                     atPage - 1)

\* C11 happens: commitsSinceTag has returned three commits it read from three pages.
C11_Witness ==
    /\ op = "commitsSinceTag" /\ Succeeded
    /\ Len(listing) = 3
    /\ Len(ret[1].value) = 3
    /\ ctx = None

\* C11 (as claimed): each of the four list calls that succeeds has requested
\* every page of its list up to the last.
C11_AllListCallsPaginate ==
    /\ Succeeded /\ op \in {"commitsSinceTag", "PullRequestForBranch", "LatestTag"} =>
           Len(requests) = Len(listing)
    /\ Succeeded /\ op = "Changesets" =>
           requests = AllAssociatedRequests(releasableCommits)

\* C15: PullRequestForBranch returns a pull request only when the platform
\* knows a commit for the branch and lists a pull request that is open, based
\* on the base branch and headed by the branch; it is then built from the
\* first such pull request in page order.  It returns none, without error,
\* when no page lists such a pull request or the platform knows no commit for
\* the branch.  It returns an error, and no pull request, exactly when a
\* request failed otherwise (or the context was cancelled).
ListedPullRequests == Flatten(listing)
ListedReleases == {i \in 1..Len(ListedPullRequests) : IsRelease(ListedPullRequests[i])}
FirstListedRelease ==
    ListedPullRequests[CHOOSE i \in ListedReleases : \A j \in ListedReleases : i <= j]
C15_ReleasePullRequestOrNone ==
    (op = "PullRequestForBranch" /\ ret # None) =>
        /\ ret[1].err = Nil <=>
               (ctx = None /\ \A i \in 1..Len(requests) :
                                  requests[i].err \in {Nil, NoCommitFound})
        /\ ret[1].err # Nil => ret[1].value = None
        /\ ret[1].err = Nil /\ (~BranchHasCommit \/ ListedReleases = {}) => ret[1].value = None
        /\ ret[1].err = Nil /\ BranchHasCommit /\ ListedReleases # {} =>
               ret[1].value = <<[ID |-> FirstListedRelease.Number,
                                 Title |-> FirstListedRelease.Title,
                                 Description |-> FirstListedRelease.Body,
                                 Labels |-> FirstListedRelease.Labels]>>
        /\ ret[1].err = Nil =>
               ret[1].value = PullRequestForBranch(ReleaserBranchOf(flagBranch), 0).pr

\* C15 happens: the first page lists a closed pull request of the branch, the
\* next pages two open ones, and the first of these is returned.
C15_Witness ==
    /\ op = "PullRequestForBranch" /\ Succeeded
    /\ Len(listing) = 3
    /\ listing[1][1].State = "closed" /\ listing[1][1].HeadLabel = ReleaserBranchOf(flagBranch)
    /\ ListedReleases = {2, 3}
    /\ ret[1].value # None /\ ret[1].value[1].ID = 2

EachPageOnce ==
    \A i, j \in 1..Len(requests) :
        (requests[i].of = requests[j].of /\ requests[i].page = requests[j].page) => i = j

PaginatedCalls == {"commitsSinceTag", "Changesets", "PullRequestForBranch"}

\* C19 (amended): within one call of commitsSinceTag, Changesets or
\* PullRequestForBranch no page is requested twice; a request for which the
\* client returns an error is the call's last, and the call returns at once:
\* the error with no result, nothing of what it had accumulated; except that
\* PullRequestForBranch, on the platform's error "No commit found for SHA" for
\* the branch, returns no pull request and no error.
C19_FailedRequestEndsCall ==
    op \in PaginatedCalls =>
        /\ EachPageOnce
        /\ \A i \in 1..Len(requests) :
               ~requests[i].ok =>
                   /\ i = Len(requests)
                   /\ ret # None
                   /\ IF op = "PullRequestForBranch" /\ requests[i].err = NoCommitFound
                      THEN ret[1] = [err |-> Nil, value |-> None]
                      ELSE ret[1] = [err |-> requests[i].err, value |-> <<>>]
        /\ (ret # None /\ ret[1].err # Nil) => ret[1].value = <<>>

\* C19 happens: Changesets had made a changeset of its first commit when a
\* request for the pull requests of a later commit failed, and it returned the
\* error and no changeset.
C19_Witness ==
    /\ op = "Changesets"
    /\ made # <<>>
    /\ Len(requests) > 1
    /\ requests[Len(requests)].err = "forge: list pull requests"
    /\ ret # None
    /\ ret[1] = [err |-> "forge: list pull requests", value |-> <<>>]

\* C19 (as claimed): every request for which the client returns an error
\* makes the call return an error.
C19_EveryFailedRequestIsAnError ==
    op \in PaginatedCalls =>
        /\ EachPageOnce
        /\ \A i \in 1..Len(requests) :
               ~requests[i].ok =>
                   /\ i = Len(requests)
                   /\ ret # None
                   /\ ret[1].err # Nil
                   /\ ret[1].value = <<>>

-----------------------------------------------------------------------------
(* Properties of the section block parser                                   *)

\* The line is an end marker whose captured name, what stands between the
\* prefix and the last " -->" of the line, is name.
NamesEnd(line, name) ==
    /\ Len(line) >= 3
    /\ line[1] = "<!-- section-end "
    /\ \E k \in 3..Len(line) :
           /\ line[k] = " -->"
           /\ \A j \in (k + 1)..Len(line) : line[j] # " -->"
           /\ SubSeq(line, 2, k - 1) = <<name>>
NamesStart(line, name) == line = <<"<!-- section-start ", name, " -->">>

\* C13: of every section, with N the name its start marker gave it: while it
\* is open no line after its start marker was an end marker naming N, and
\* every such line, an end marker naming another name included, is content of
\* it; once it is closed, the line that closed it is the first end marker
\* naming N after its start, and its content is the lines in between, none
\* after.  So a section whose end marker never comes is open at the end of
\* the input.
C13_SectionClosesOnMatchingEnd ==
    \A n \in 1..Len(sections) :
        LET s == sections[n]
            until == IF s.closedAt = 0 THEN lineNo - 1 ELSE s.closedAt - 1
        IN  /\ \E name \in SectionNames :
                   s.node.Name = <<name>> /\ NamesStart(lines[s.start], name)
            /\ s.body = [i \in 1..(until - s.start) |-> s.start + i]
            /\ \A i \in (s.start + 1)..until : ~NamesEnd(lines[i], s.node.Name[1])
            /\ s.closedAt # 0 => NamesEnd(lines[s.closedAt], s.node.Name[1])
            /\ s.closedAt = 0 => openSections = <<n>>

\* C13 happens: section a met the end marker of b, which it kept as content,
\* then its own, and the line after that is no part of it.
C13_Witness ==
    /\ lines = << <<"<!-- section-start ", "a", " -->">>,
                  <<"<!-- section-end ", "b", " -->">>,
                  <<"<!-- section-end ", "a", " -->">>,
                  <<"text">> >>
    /\ lineNo = 5
    /\ Len(sections) = 1
    /\ sections[1].body = <<2>>
    /\ sections[1].closedAt = 3

-----------------------------------------------------------------------------
(* Properties of NewChangelogEntry                                          *)

\* The positions of the commits of a type, and the n-th of them.
PositionsOfType(commits, type) == {i \in 1..Len(commits) : commits[i].Type = type}
NthOfType(commits, type, n) ==
    CHOOSE i \in PositionsOfType(commits, type) :
        Cardinality({j \in PositionsOfType(commits, type) : j <= i}) = n

\* C16: the Features of the entry are the input's commits of type feat and
\* the Fixes those of type fix, each list in the input's order and each commit
\* once; a commit of another type is in neither list, and no commit is in both.
C16_FeaturesAndFixesInOrder ==
    (pc = "UpdateChangelogFile" /\ changelogEntry # None) =>
        LET commits == ChangelogEntries(changesets)
            entry == changelogEntry[1]
            Listed(list, type) ==
                /\ Len(list) = Cardinality(PositionsOfType(commits, type))
                /\ \A n \in 1..Len(list) : list[n] = commits[NthOfType(commits, type, n)]
        IN  /\ Listed(entry.Features, "feat")
            /\ Listed(entry.Fixes, "fix")
            /\ \A i \in 1..Len(commits) :
                   commits[i].Type \notin {"feat", "fix"} =>
                       /\ \A n \in 1..Len(entry.Features) : entry.Features[n] # commits[i]
                       /\ \A n \in 1..Len(entry.Fixes) : entry.Fixes[n] # commits[i]
            /\ \A n \in 1..Len(entry.Features), m \in 1..Len(entry.Fixes) :
                   entry.Features[n] # entry.Fixes[m]

\* C16 happens: of feat, fix, chore, feat the entry lists the two features in
\* their order, the one fix, and not the chore.
C16_Witness ==
    /\ pc = "UpdateChangelogFile" /\ changelogEntry # None
    /\ Len(ChangelogEntries(changesets)) = 4
    /\ ChangelogEntries(changesets)[3].Type = "chore"
    /\ Len(changelogEntry[1].Features) = 2
    /\ changelogEntry[1].Features[1].Hash = "c1"
    /\ changelogEntry[1].Features[2].Hash = "c4"
    /\ Len(changelogEntry[1].Fixes) = 1
    /\ changelogEntry[1].Fixes[1].Hash = "c2"

====
